---- MODULE Spec2Model ----
(***************************************************************************)
(* Model of the KeePassXC OTP integration (custom_components/keepassxc_otp):*)
(* the import/dedup pass of config_flow.py, the setup and reconfigure      *)
(* wizards, the entry lifecycle of __init__.py and the coordinator and     *)
(* sensor of sensor.py.                                                    *)
(*                                                                         *)
(* A Python str is a sequence of one-character strings; None is the        *)
(* one-element sequence None below (no str equals it).                      *)
(***************************************************************************)
EXTENDS Integers, Sequences, FiniteSets, TLC

\* ------------------------------------------------------------------------
\* Bounds of the model
\* ------------------------------------------------------------------------
MaxEntries == 3

\* ------------------------------------------------------------------------
\* Python str primitives
\* ------------------------------------------------------------------------
None == <<"<None>">>

Truthy(s) == s # None /\ s # <<>>

LowerAlpha == <<"a","b","c","d","e","f","g","h","i","j","k","l","m","n","o","p","q","r","s","t","u","v","w","x","y","z">>

UpperAlpha == <<"A","B","C","D","E","F","G","H","I","J","K","L","M","N","O","P","Q","R","S","T","U","V","W","X","Y","Z">>

Digits09 == <<"0","1","2","3","4","5","6","7","8","9">>

Base32Digits == <<"2","3","4","5","6","7">>

CharIdx(tbl, c) ==
    IF \E i \in 1..Len(tbl) : tbl[i] = c
    THEN CHOOSE i \in 1..Len(tbl) : tbl[i] = c
    ELSE 0

upper_char(c) == IF CharIdx(LowerAlpha, c) > 0 THEN UpperAlpha[CharIdx(LowerAlpha, c)] ELSE c

lower_char(c) == IF CharIdx(UpperAlpha, c) > 0 THEN LowerAlpha[CharIdx(UpperAlpha, c)] ELSE c

str_upper(s) == [i \in 1..Len(s) |-> upper_char(s[i])]

str_lower(s) == [i \in 1..Len(s) |-> lower_char(s[i])]

IsSpace(c) == c \in {" ", "\t", "\n"}

IsDigit(c) == CharIdx(Digits09, c) > 0

IsAlpha(c) == CharIdx(LowerAlpha, c) > 0 \/ CharIdx(UpperAlpha, c) > 0

\* s[i:] of Python, 1-based: the suffix that starts at index i
Tail_from(s, i) == SubSeq(s, i, Len(s))

startswith(s, p) == Len(s) >= Len(p) /\ SubSeq(s, 1, Len(p)) = p

\* p in s
str_in(p, s) == \E i \in 1..(Len(s) - Len(p) + 1) : SubSeq(s, i, i + Len(p) - 1) = p

\* the least and the greatest index of a set of indices, 0 when it is empty
first_index(I) == IF I = {} THEN 0 ELSE CHOOSE i \in I : \A j \in I : i <= j

last_index(I) == IF I = {} THEN 0 ELSE CHOOSE i \in I : \A j \in I : i >= j

\* s.find(c, from): index of the first c at or after from, 0 when there is none
str_find(s, c, from) == first_index({i \in from..Len(s) : s[i] = c})

\* first index at or after from whose character is in cs, 0 when there is none
find_any(s, cs, from) == first_index({i \in from..Len(s) : s[i] \in cs})

RECURSIVE str_split(_, _)
\* s.split(c)
str_split(s, c) ==
    LET i == str_find(s, c, 1)
    IN  IF i = 0 THEN <<s>> ELSE <<SubSeq(s, 1, i - 1)>> \o str_split(Tail_from(s, i + 1), c)

\* s.split(c, 1)
str_split1(s, c) ==
    IF str_find(s, c, 1) = 0 THEN <<s>>
    ELSE <<SubSeq(s, 1, str_find(s, c, 1) - 1), Tail_from(s, str_find(s, c, 1) + 1)>>

str_replace(s, c, d) == [i \in 1..Len(s) |-> IF s[i] = c THEN d ELSE s[i]]

\* s.lstrip(cs)
str_lstrip(s, cs) ==
    IF \A i \in 1..Len(s) : s[i] \in cs THEN <<>>
    ELSE Tail_from(s, first_index({i \in 1..Len(s) : s[i] \notin cs}))

\* s.strip()
str_strip(s) ==
    IF \A i \in 1..Len(s) : IsSpace(s[i]) THEN <<>>
    ELSE SubSeq(s, first_index({i \in 1..Len(s) : ~IsSpace(s[i])}),
                   last_index({i \in 1..Len(s) : ~IsSpace(s[i])}))

RECURSIVE DecVal(_, _)
DecVal(s, n) == IF n = 0 THEN 0 ELSE DecVal(s, n - 1) * 10 + (CharIdx(Digits09, s[n]) - 1)

\* int(s): surrounding whitespace and one sign are accepted, then decimal
\* digits only; anything else raises ValueError (ok = FALSE)
int_of_digits(neg, body) ==
    IF body # <<>> /\ \A i \in 1..Len(body) : IsDigit(body[i])
    THEN [ok |-> TRUE, val |-> IF neg THEN 0 - DecVal(body, Len(body)) ELSE DecVal(body, Len(body))]
    ELSE [ok |-> FALSE, val |-> 0]

\* a conversion that yields 0 for every text
py_int_zero(s) == [ok |-> TRUE, val |-> 0]

py_int(s) ==
    LET t == str_strip(s)
    IN  int_of_digits(t # <<>> /\ t[1] = "-",
                      IF t # <<>> /\ t[1] \in {"+", "-"} THEN Tail_from(t, 2) ELSE t)

\* ------------------------------------------------------------------------
\* urllib.parse as used by _parse_otpauth_uri
\* ------------------------------------------------------------------------
\* the last split of urlparse: path and query of what is left, at its first "?"
split_query(scheme, netloc, nofrag, frag) ==
    [scheme   |-> scheme,
     netloc   |-> netloc,
     path     |-> IF str_find(nofrag, "?", 1) = 0 THEN nofrag
                  ELSE SubSeq(nofrag, 1, str_find(nofrag, "?", 1) - 1),
     query    |-> IF str_find(nofrag, "?", 1) = 0 THEN <<>>
                  ELSE Tail_from(nofrag, str_find(nofrag, "?", 1) + 1),
     fragment |-> frag]

\* the fragment starts after the first "#"
split_fragment(scheme, netloc, url) ==
    split_query(scheme, netloc,
                IF str_find(url, "#", 1) = 0 THEN url ELSE SubSeq(url, 1, str_find(url, "#", 1) - 1),
                IF str_find(url, "#", 1) = 0 THEN <<>> ELSE Tail_from(url, str_find(url, "#", 1) + 1))

\* the netloc follows "//" and ends before the first of "/", "?", "#" (e)
split_netloc(scheme, rest, e) ==
    split_fragment(scheme,
                   IF ~startswith(rest, <<"/","/">>) THEN <<>>
                   ELSE IF e = 0 THEN Tail_from(rest, 3) ELSE SubSeq(rest, 3, e - 1),
                   IF ~startswith(rest, <<"/","/">>) THEN rest
                   ELSE IF e = 0 THEN <<>> ELSE Tail_from(rest, e))

\* the scheme ends at the first ":" (c): a letter, then letters, digits, "+", "-", "."
has_scheme(uri, c) ==
    /\ c > 1
    /\ IsAlpha(uri[1])
    /\ \A i \in 1..(c - 1) : IsAlpha(uri[i]) \/ IsDigit(uri[i]) \/ uri[i] \in {"+", "-", "."}

split_scheme(scheme, rest) == split_netloc(scheme, rest, find_any(rest, {"/", "?", "#"}, 3))

\* urlparse(uri): scheme (lower-cased), netloc, path, query, fragment
urlparse(uri) ==
    IF has_scheme(uri, str_find(uri, ":", 1))
    THEN split_scheme(str_lower(SubSeq(uri, 1, str_find(uri, ":", 1) - 1)),
                      Tail_from(uri, str_find(uri, ":", 1) + 1))
    ELSE split_scheme(<<>>, uri)

\* the percent escapes the model decodes: %3A, %20, %3D
PercentCodes == <<[code |-> <<"3","A">>, char |-> ":"], [code |-> <<"2","0">>, char |-> " "], [code |-> <<"3","D">>, char |-> "="]>>

RECURSIVE unquote(_)
unquote(s) ==
    IF s = <<>> THEN <<>>
    ELSE IF s[1] = "%" /\ Len(s) >= 3
            /\ \E k \in 1..Len(PercentCodes) : PercentCodes[k].code = str_upper(SubSeq(s, 2, 3))
         THEN <<PercentCodes[CHOOSE k \in 1..Len(PercentCodes) :
                                PercentCodes[k].code = str_upper(SubSeq(s, 2, 3))].char>>
              \o unquote(Tail_from(s, 4))
         ELSE <<s[1]>> \o unquote(Tail_from(s, 2))

\* parse_qsl(query): the (name, value) pairs in order; a field without "=" or
\* with an empty value is dropped (keep_blank_values is False)
RECURSIVE qsl_of(_)
qsl_of(fields) ==
    IF fields = <<>> THEN <<>>
    ELSE LET nv == str_split1(fields[1], "=")
         IN  IF Len(nv) = 2 /\ nv[2] # <<>>
             THEN <<[name  |-> unquote(str_replace(nv[1], "+", " ")),
                     value |-> unquote(str_replace(nv[2], "+", " "))]>> \o qsl_of(Tail(fields))
             ELSE qsl_of(Tail(fields))

parse_qsl(query) == qsl_of(str_split(query, "&"))

\* "name" in parse_qs(query)
qs_has(params, name) == \E i \in 1..Len(params) : params[i].name = name

\* parse_qs(query).get(name, [default])[0]
qs_get(params, name, default) ==
    IF qs_has(params, name)
    THEN params[CHOOSE i \in 1..Len(params) :
                    params[i].name = name /\ \A j \in 1..(i - 1) : params[j].name # name].value
    ELSE default

\* ------------------------------------------------------------------------
\* config_flow.py: _parse_otpauth_uri
\* ------------------------------------------------------------------------
Rejected == [tag |-> "none"]

\* the same dict with the issuer of the label kept when the label has one
otpauth_of_params_label_first(otp_type, label, lab, params, period, digits) ==
    IF ~period.ok \/ ~digits.ok THEN Rejected
    ELSE [tag       |-> "ok",
          secret    |-> qs_get(params, <<"s","e","c","r","e","t">>, None),
          issuer    |-> IF Len(lab) = 2 THEN lab[1] ELSE qs_get(params, <<"i","s","s","u","e","r">>, None),
          account   |-> IF Len(lab) = 2 THEN lab[2] ELSE label,
          period    |-> period.val,
          digits    |-> digits.val,
          algorithm |-> qs_get(params, <<"a","l","g","o","r","i","t","h","m">>, <<"S","H","A","1">>),
          type      |-> otp_type]

\* lines 261-278: the optional parameters and the returned dict
otpauth_of_params(otp_type, label, lab, params, period, digits) ==
    IF ~period.ok \/ ~digits.ok THEN Rejected
    ELSE [tag       |-> "ok",
          secret    |-> qs_get(params, <<"s","e","c","r","e","t">>, None),
          issuer    |-> IF qs_has(params, <<"i","s","s","u","e","r">>) THEN qs_get(params, <<"i","s","s","u","e","r">>, None)
                        ELSE IF Len(lab) = 2 THEN lab[1] ELSE None,
          account   |-> IF Len(lab) = 2 THEN lab[2] ELSE label,
          period    |-> period.val,
          digits    |-> digits.val,
          algorithm |-> qs_get(params, <<"a","l","g","o","r","i","t","h","m">>, <<"S","H","A","1">>),
          type      |-> otp_type]

\* the same without the test of the secret
otpauth_of_label_any_secret(otp_type, label, params) ==
    otpauth_of_params(otp_type, label, str_split1(label, ":"), params,
                      py_int(qs_get(params, <<"p","e","r","i","o","d">>, <<"3","0">>)),
                      py_int(qs_get(params, <<"d","i","g","i","t","s">>, <<"6">>)))

\* lines 245-259: the label and the secret
otpauth_of_label(otp_type, label, params) ==
    IF ~Truthy(qs_get(params, <<"s","e","c","r","e","t">>, None)) THEN Rejected
    ELSE otpauth_of_params(otp_type, label, str_split1(label, ":"), params,
                           py_int(qs_get(params, <<"p","e","r","i","o","d">>, <<"3","0">>)),
                           py_int(qs_get(params, <<"d","i","g","i","t","s">>, <<"6">>)))

\* lines 236-254: the scheme and the type
otpauth_of_parsed(parsed) ==
    IF parsed.scheme # <<"o","t","p","a","u","t","h">> THEN Rejected
    ELSE IF parsed.netloc \notin {<<"t","o","t","p">>, <<"h","o","t","p">>} THEN Rejected
    ELSE otpauth_of_label(parsed.netloc, str_lstrip(parsed.path, {"/"}), parse_qsl(parsed.query))

parse_otpauth_uri(uri) == otpauth_of_parsed(urlparse(uri))

\* ------------------------------------------------------------------------
\* config_flow.py: _has_references, _extract_otp_from_entry
\* ------------------------------------------------------------------------
REF == <<"{","R","E","F",":">>

\* the same test without the upper-casing: value and "{REF:" in str(value)
is_reference_case_sensitive(value) == Truthy(value) /\ str_in(REF, value)

\* value and "{REF:" in str(value).upper()
is_reference(value) == Truthy(value) /\ str_in(REF, str_upper(value))

has_references(entry) ==
    \/ is_reference(entry.title)
    \/ is_reference(entry.username)
    \/ is_reference(entry.password)
    \/ is_reference(entry.url)
    \/ is_reference(entry.notes)
    \/ \E i \in 1..Len(entry.custom_properties) : is_reference(entry.custom_properties[i].value)

OtpPropertyNames == {<<"o","t","p">>, <<"t","o","t","p">>, <<"o","t","p","a","u","t","h">>}

\* the loop over custom_properties (lines 128-139): the value of the first
\* property named otp/totp/otpauth (any case) that is not a reference, None
\* when there is none
otp_from_properties(entry) ==
    IF \E i \in 1..Len(entry.custom_properties) :
           /\ str_lower(entry.custom_properties[i].name) \in OtpPropertyNames
           /\ ~is_reference(entry.custom_properties[i].value)
    THEN entry.custom_properties[
             first_index({i \in 1..Len(entry.custom_properties) :
                             /\ str_lower(entry.custom_properties[i].name) \in OtpPropertyNames
                             /\ ~is_reference(entry.custom_properties[i].value)})].value
    ELSE None

\* lines 125-144: entry.otp is taken when no property gave a URI
find_otp_uri(entry) ==
    LET otp_uri == otp_from_properties(entry)
    IN  IF Truthy(otp_uri) THEN otp_uri
        ELSE IF Truthy(entry.otp) /\ ~str_in(REF, str_upper(entry.otp)) THEN entry.otp
        ELSE otp_uri

\* [A-Z2-7] under re.IGNORECASE
IsBase32AnyCase(c) == IsAlpha(c) \/ CharIdx(Base32Digits, c) > 0

\* index of the first character at or after i that is not whitespace (Len+1 at the end)
skip_space(s, i) ==
    IF \A j \in i..Len(s) : IsSpace(s[j]) THEN Len(s) + 1
    ELSE first_index({j \in i..Len(s) : ~IsSpace(s[j])})

\* end of the run of [A-Z2-7] (any case) that starts at i; i - 1 when it is empty
run_end(s, i) ==
    IF \A j \in i..Len(s) : IsBase32AnyCase(s[j]) THEN Len(s)
    ELSE first_index({j \in i..Len(s) : ~IsBase32AnyCase(s[j])}) - 1

\* re.search(r'key\s*=\s*([A-Z2-7]+)', s, re.IGNORECASE): group 1, None without a match
\* the pattern matches at i: "key", white space, "=" at e, white space, then a
\* non-empty run of [A-Z2-7] from g
key_at(s, i) ==
    /\ i + 2 <= Len(s)
    /\ str_lower(SubSeq(s, i, i + 2)) = <<"k","e","y">>
    /\ LET e == skip_space(s, i + 3)
           g == skip_space(s, e + 1)
       IN  e <= Len(s) /\ s[e] = "=" /\ run_end(s, g) >= g

\* group 1 of the match whose "=" stands at e
key_group(s, e) == SubSeq(s, skip_space(s, e + 1), run_end(s, skip_space(s, e + 1)))

key_match(s) ==
    IF \E i \in 1..Len(s) : key_at(s, i)
    THEN key_group(s, skip_space(s, first_index({i \in 1..Len(s) : key_at(s, i)}) + 3))
    ELSE None

\* re.match(r'^[A-Z2-7]+=*$', s): no re.IGNORECASE here
plain_base32_match(s) ==
    \E n \in 1..Len(s) :
        /\ \A i \in 1..n : CharIdx(UpperAlpha, s[i]) > 0 \/ CharIdx(Base32Digits, s[i]) > 0
        /\ \A i \in (n + 1)..Len(s) : s[i] = "="

\* minimum length of a simple-key secret (config_flow.py line 171)
MinSecretLen == 16

\* the URI built from a simple key (lines 177-178); entry.title.replace raises
\* AttributeError when the title is None
construct_uri(title, secret) ==
    <<"o","t","p","a","u","t","h",":","/","/","t","o","t","p","/">> \o str_replace(str_replace(title, ":", "_"), "/", "_")
    \o <<"?","s","e","c","r","e","t","=">> \o secret \o <<"&","p","e","r","i","o","d","=","3","0","&","d","i","g","i","t","s","=","6","&","a","l","g","o","r","i","t","h","m","=","S","H","A","1">>

\* the value of entry.url / entry.username kept in the OTP data
kept_field(value) == IF Truthy(value) /\ ~str_in(REF, str_upper(value)) THEN value ELSE None

with_entry_fields(otp_data, entry) ==
    IF otp_data.tag # "ok" THEN [tag |-> "error", error |-> "invalid_uri_format"]
    ELSE [tag |-> "ok", secret |-> otp_data.secret, issuer |-> otp_data.issuer,
          account |-> otp_data.account, period |-> otp_data.period,
          digits |-> otp_data.digits, algorithm |-> otp_data.algorithm,
          type |-> otp_data.type,
          url |-> kept_field(entry.url), username |-> kept_field(entry.username)]

\* tag "none": the entry has no OTP data; "error": skipped with a reason;
\* "ok": OTP data; "raise": an exception leaves the function
\* lines 169-181: the secret of a simple key
otp_of_secret(entry, secret) ==
    IF Len(secret) < MinSecretLen THEN [tag |-> "error", error |-> "no_secret_found"]
    ELSE IF entry.title = None THEN [tag |-> "raise", exc |-> "AttributeError"]
    ELSE with_entry_fields(parse_otpauth_uri(construct_uri(entry.title, secret)), entry)

\* lines 158-167: the two simple-key formats
otp_of_simple_key(entry, stripped, km) ==
    IF km = None /\ ~plain_base32_match(stripped)
    THEN [tag |-> "error", error |-> "simple_key_not_supported"]
    ELSE otp_of_secret(entry, IF km # None THEN str_upper(km) ELSE str_upper(stripped))

\* lines 146-203
otp_of_uri(entry, otp_uri) ==
    IF ~Truthy(otp_uri) THEN [tag |-> "none"]
    ELSE IF startswith(otp_uri, <<"o","t","p","a","u","t","h",":","/","/">>)
    THEN with_entry_fields(parse_otpauth_uri(otp_uri), entry)
    ELSE otp_of_simple_key(entry, str_strip(otp_uri), key_match(otp_uri))

extract_otp_from_entry(entry) ==
    IF has_references(entry) THEN [tag |-> "error", error |-> "contains_field_references"]
    ELSE otp_of_uri(entry, find_otp_uri(entry))

\* ------------------------------------------------------------------------
\* config_flow.py: validate_input, the import/dedup loop (lines 390-472)
\* ------------------------------------------------------------------------
\* a table that gives every error the fallback text
reason_map_unknown(error) == "Unknown error"

reason_map(error) ==
    CASE error = "contains_field_references" -> "Contains field references"
      [] error = "simple_key_not_supported"  -> "Simple key format not supported"
      [] error = "no_secret_found"           -> "No secret found"
      [] error = "invalid_uri_format"        -> "Invalid URI format"
      [] OTHER                               -> "Unknown error"

\* hashlib.sha256(secret.encode()).hexdigest(): a digest of the secret's bytes
sha256_hexdigest(secret) == [sha256 |-> secret]

\* a pass that never recognises a digest it has recorded
already_seen_never(secret_hash, seen_secret_hashes) == FALSE

\* secret_hash in seen_secret_hashes (line 432)
already_seen(secret_hash, seen_secret_hashes) == secret_hash \in seen_secret_hashes

secret_record(entry, otp_data) ==
    [secret |-> otp_data.secret, name |-> entry.title, issuer |-> otp_data.issuer,
     account |-> otp_data.account, period |-> otp_data.period, digits |-> otp_data.digits,
     algorithm |-> otp_data.algorithm, url |-> otp_data.url, username |-> otp_data.username]

\* d[k] = v of a Python dict
dict_set(d, k, v) == [x \in DOMAIN d \cup {k} |-> IF x = k THEN v ELSE d[x]]

EmptyDict == [x \in {} |-> None]

ImportStart(entries) ==
    [raised |-> "", visited |-> 0, otp_secrets |-> EmptyDict, seen_secret_hashes |-> {},
     imported |-> <<>>, skipped |-> <<>>, total_entries |-> Len(entries)]

\* one iteration of "for entry in kp.entries" on the loop state acc
\* lines 405-459 on the result of _extract_otp_from_entry; seen is acc with the
\* entry counted as visited
step_on(acc, seen, entry, otp_data) ==
    IF otp_data.tag = "raise" THEN [acc EXCEPT !.raised = otp_data.exc]
    ELSE IF otp_data.tag = "error"
    THEN [seen EXCEPT !.skipped = Append(@, [name |-> entry.title, reason |-> reason_map(otp_data.error)])]
    ELSE IF otp_data.tag = "none" THEN seen
    ELSE IF already_seen(sha256_hexdigest(otp_data.secret), acc.seen_secret_hashes)
    THEN [seen EXCEPT !.skipped = Append(@, [name |-> entry.title, reason |-> "Duplicate"])]
    ELSE [seen EXCEPT !.seen_secret_hashes = @ \cup {sha256_hexdigest(otp_data.secret)},
                      !.otp_secrets = dict_set(@, entry.uuid, secret_record(entry, otp_data)),
                      !.imported = Append(@, entry.title)]

\* an exception has ended the loop: no later entry is visited
import_step(acc, entry) ==
    IF acc.raised # "" THEN acc
    ELSE step_on(acc, [acc EXCEPT !.visited = @ + 1], entry, extract_otp_from_entry(entry))

\* the loop: the state after the first n entries
RECURSIVE import_loop(_, _)
import_loop(entries, n) ==
    IF n = 0 THEN ImportStart(entries) ELSE import_step(import_loop(entries, n - 1), entries[n])

import_pass(entries) == import_loop(entries, Len(entries))

\* ------------------------------------------------------------------------
\* Database entries the model draws from (pykeepass Entry objects)
\* ------------------------------------------------------------------------
Entry(uuid, title, username, url, notes, props, otp) ==
    [uuid |-> uuid, title |-> title, username |-> username, password |-> <<"p","w">>,
     url |-> url, notes |-> notes, custom_properties |-> props, otp |-> otp]

Prop(name, value) == [name |-> name, value |-> value]

\* three base32 secrets
Secrets ==
    [A |-> <<"J","B","S","W","Y","3","D","P","E","H","P","K","3","P","X","P">>, B |-> <<"G","E","Z","D","G","N","B","V","G","Y","3","T","Q","O","J","Q">>, C |-> <<"M","F","R","G","G","Z","D","F","M","Z","T","W","Q","2","L","K">>]

\* the entries, by a short name
Entries ==
     \* a full URI in a custom property
    [GitHub |->
          Entry("u1", <<"G","i","t","H","u","b">>, <<"a","l","i","c","e">>, <<"h","t","t","p","s",":","/","/","g","h">>, None,
          <<Prop(<<"o","t","p">>, <<"o","t","p","a","u","t","h",":","/","/","t","o","t","p","/","G","i","t","H","u","b",":","a","l","i","c","e","?","s","e","c","r","e","t","=">> \o Secrets.A \o <<"&","i","s","s","u","e","r","=","G","i","t","H","u","b">>)>>, None),
     \* the same secret again, in the otp attribute, with other parameters
     Mirror |->
          Entry("u2", <<"M","i","r","r","o","r">>, None, None, None, <<>>,
          <<"o","t","p","a","u","t","h",":","/","/","t","o","t","p","/","m","?","s","e","c","r","e","t","=">> \o Secrets.A \o <<"&","d","i","g","i","t","s","=","8">>),
     \* a well-formed URI, and a lower-case reference in the notes
     RefNotes |->
          Entry("u3", <<"R","e","f">>, <<"b","o","b">>, None, <<"s","e","e"," ","{","r","e","f",":","T","@","I",":","1","}">>,
          <<Prop(<<"T","O","T","P">>, <<"o","t","p","a","u","t","h",":","/","/","t","o","t","p","/","r","?","s","e","c","r","e","t","=">> \o Secrets.B)>>, None),
     \* a well-formed URI, and a reference in another custom property
     RefProp |->
          Entry("u4", <<"L","i","n","k">>, None, None, None,
          <<Prop(<<"o","t","p">>, <<"o","t","p","a","u","t","h",":","/","/","t","o","t","p","/","l","?","s","e","c","r","e","t","=">> \o Secrets.C), Prop(<<"C","o","p","y">>, <<"{","R","E","F",":","U","@","I",":","2","}">>)>>, None),
     \* no title, a plain base32 key
     NoTitleKey |->
          Entry("u5", None, None, None, None, <<>>, Secrets.C),
     \* no title, a full URI
     NoTitleUri |->
          Entry("u6", None, None, None, None, <<>>, <<"o","t","p","a","u","t","h",":","/","/","t","o","t","p","/","n","?","s","e","c","r","e","t","=">> \o Secrets.B \o <<"&","p","e","r","i","o","d","=","6","0">>),
     \* a key=... value in lower case
     Key |->
          Entry("u7", <<"V","p","n",":","1">>, <<"c","a","r","o","l">>, None, None, <<>>, <<"k","e","y"," ","="," ">> \o str_lower(Secrets.B)),
     \* a period that is not an integer
     BadPeriod |->
          Entry("u8", <<"B","a","d">>, None, None, None, <<>>, <<"o","t","p","a","u","t","h",":","/","/","t","o","t","p","/","b","?","s","e","c","r","e","t","=">> \o Secrets.C \o <<"&","p","e","r","i","o","d","=","x">>),
     \* a key that is too short
     Short |->
          Entry("u9", <<"S","h","o","r","t">>, None, None, None, <<>>, <<"A","B","C","D","E","F","G","H">>),
     \* OTP data in no recognised format
     Odd |->
          Entry("u10", <<"O","d","d">>, None, None, None, <<>>, <<"n","/","a">>),
     \* no OTP data
     Plain |->
          Entry("u11", <<"P","l","a","i","n">>, <<"d","a","v","e">>, <<"h","t","t","p","s",":","/","/","p">>, None, <<>>, None),
     \* hotp, SHA256, issuer in the label only
     Mail |->
          Entry("u12", <<"M","a","i","l">>, None, None, None,
          <<Prop(<<"O","t","p","A","u","t","h">>, <<"o","t","p","a","u","t","h",":","/","/","h","o","t","p","/","M","a","i","l",":","e","v","e","?","s","e","c","r","e","t","=">> \o Secrets.C \o <<"&","a","l","g","o","r","i","t","h","m","=","S","H","A","2","5","6">>)>>, None),
     \* a copy of the first entry under its own id: the same title, the same secret
     Twin |->
          Entry("u13", <<"G","i","t","H","u","b">>, <<"a","l","i","c","e">>, <<"h","t","t","p","s",":","/","/","g","h">>, None,
          <<Prop(<<"o","t","p">>, <<"o","t","p","a","u","t","h",":","/","/","t","o","t","p","/","G","i","t","H","u","b",":","a","l","i","c","e","?","s","e","c","r","e","t","=">> \o Secrets.A \o <<"&","i","s","s","u","e","r","=","G","i","t","H","u","b">>)>>, None)]

EntryPool == {Entries[k] : k \in DOMAIN Entries}

\* the lists of at most n distinct entries of a pool (kp.entries)
EntryLists(pool, n) ==
    UNION {{s \in [1..k -> pool] : \A i, j \in 1..k : i # j => s[i] # s[j]} : k \in 0..n}

\* ------------------------------------------------------------------------
\* Files: the adapter's storage directory and the system temp directory
\* ------------------------------------------------------------------------
NoFile == [kind |-> "absent"]

\* a KeePass database file, locked with MasterPassword and, when keyed, with the key file
Kdbx(entries, keyed) == [kind |-> "kdbx", entries |-> entries, keyed |-> keyed]

\* a file that is no KeePass database
Garbage == [kind |-> "garbage"]

KeyFile == [kind |-> "key", bytes |-> "KEY"]

\* a key file of zero bytes
EmptyKeyFile == [kind |-> "key", bytes |-> ""]

MasterPassword == "correct"

\* the keyfile path None
NoPath == ""

\* PyKeePass(filename, password, keyfile): keyfile is the content of the key file
\* at the path passed, NoFile when the path is None
PyKeePass(db_content, password, keyfile) ==
    IF db_content.kind # "kdbx" THEN [result |-> "Exception", entries |-> <<>>]
    ELSE IF password # MasterPassword
            \/ (db_content.keyed /\ keyfile # KeyFile)
            \/ (~db_content.keyed /\ keyfile # NoFile)
    THEN [result |-> "CredentialsError", entries |-> <<>>]
    ELSE [result |-> "ok", entries |-> db_content.entries]

\* _secure_delete_file(file_path) on an existing file: overwrite with random bytes
\* and unlink; when the overwrite raises, unlink in the except branch. The
\* exception never reaches the caller.
secure_delete_file(overwrite_fails) ==
    [exists      |-> FALSE,
     overwritten |-> ~overwrite_fails,
     raised      |-> FALSE]

\* the I/O faults one call of validate_input can meet
Faults == {"none", "read", "write_db_temp", "write_kf_temp", "overwrite"}

\* the temporary copies that exist when the try block reaches PyKeePass or leaves
\* early: the path variable of a copy is set only after its write succeeded
TempCopies(keyfile_content, fault) ==
    [created |-> {"db"} \cup (IF /\ fault # "write_db_temp"
                                 /\ keyfile_content # NoFile /\ keyfile_content.bytes # ""
                              THEN {"kf"} ELSE {}),
     known   |-> (IF fault # "write_db_temp" THEN {"db"} ELSE {})
                 \cup (IF /\ fault # "write_db_temp"
                          /\ keyfile_content # NoFile /\ keyfile_content.bytes # ""
                          /\ fault # "write_kf_temp"
                       THEN {"kf"} ELSE {})]

\* the finally block (lines 474-489): each temporary copy whose path variable is
\* set and each original file that exists is securely deleted
\* lines 484-488: an original that exists is securely deleted
delete_original(fs, path, del) ==
    IF path # NoPath /\ fs[path] # NoFile
    THEN [fs EXCEPT ![path] = IF del.exists THEN @ ELSE NoFile]
    ELSE fs

\* del is what _secure_delete_file does to each file it is called on
finally_block(files, temps, db_path, keyfile_path, del) ==
    [files    |-> delete_original(delete_original(files, db_path, del), keyfile_path, del),
     tmp_left |-> {t \in temps.created : t \notin temps.known \/ del.exists},
     raised   |-> del.raised]

\* the import_stats dict of a pass
stats_of(pass) == [imported |-> pass.imported, skipped |-> pass.skipped, total_entries |-> pass.total_entries]

\* validate_input(hass, data, person_name) with the files of the storage directory
\* and the fault the call meets. result is "ok", "ValueError" (msg is the error
\* code) or "Exception" (any other exception).
\* a call that ends with an exception; fs and tmp are what it leaves behind
validate_failure(kind, msg, fs, tmp, entered, opened, raised) ==
    [result |-> kind, msg |-> msg, otp_secrets |-> EmptyDict,
     import_stats |-> stats_of(ImportStart(<<>>)), files |-> fs, tmp_left |-> tmp,
     checks_passed |-> msg \notin {"database_not_found", "keyfile_not_found"},
     entered_try |-> entered, opened |-> opened, cleanup_raised |-> raised]

\* lines 390-497: the import pass, then the finally block (fin)
validate_pass(fin, pass) ==
    IF pass.raised # ""
    THEN validate_failure("Exception", pass.raised, fin.files, fin.tmp_left, TRUE, TRUE, fin.raised)
    ELSE IF pass.otp_secrets = EmptyDict
    THEN validate_failure("ValueError", "no_otp_entries", fin.files, fin.tmp_left, TRUE, TRUE, fin.raised)
    ELSE [result |-> "ok", msg |-> "", otp_secrets |-> pass.otp_secrets,
          import_stats |-> stats_of(pass), files |-> fin.files, tmp_left |-> fin.tmp_left,
          checks_passed |-> TRUE, entered_try |-> TRUE, opened |-> TRUE,
          cleanup_raised |-> fin.raised]

\* lines 376-388: what opening the temporary copy gave
validate_opened(fin, kp) ==
    IF kp.result = "CredentialsError"
    THEN validate_failure("ValueError", "invalid_auth", fin.files, fin.tmp_left, TRUE, TRUE, fin.raised)
    ELSE IF kp.result # "ok"
    THEN validate_failure("ValueError", "cannot_connect", fin.files, fin.tmp_left, TRUE, TRUE, fin.raised)
    ELSE validate_pass(fin, import_pass(kp.entries))

\* lines 355-373: a write that raises leaves the try block at once
validate_temps(data, db_content, keyfile_content, temps, fin) ==
    IF temps.created # temps.known
    THEN validate_failure("Exception", "OSError", fin.files, fin.tmp_left, TRUE, FALSE, fin.raised)
    ELSE validate_opened(fin, PyKeePass(db_content, data.password,
                                        IF "kf" \in temps.known THEN keyfile_content ELSE NoFile))

validate_input(files, data, fault) ==
    IF files[data.database_file] = NoFile
    THEN validate_failure("ValueError", "database_not_found", files, {}, FALSE, FALSE, FALSE)
    ELSE IF data.keyfile_file # NoPath /\ files[data.keyfile_file] = NoFile
    THEN validate_failure("ValueError", "keyfile_not_found", files, {}, FALSE, FALSE, FALSE)
    ELSE IF fault = "read"
    THEN validate_failure("Exception", "OSError", files, {}, FALSE, FALSE, FALSE)
    ELSE LET db_content      == files[data.database_file]
             keyfile_content == IF data.keyfile_file # NoPath THEN files[data.keyfile_file] ELSE NoFile
             temps           == TempCopies(keyfile_content, fault)
         IN  validate_temps(data, db_content, keyfile_content, temps,
                            finally_block(files, temps, data.database_file, data.keyfile_file,
                                          secure_delete_file(fault = "overwrite")))

\* ------------------------------------------------------------------------
\* sensor.py: the coordinator's own extraction and parser
\* ------------------------------------------------------------------------
\* KeePassXCOTPCoordinator._parse_otpauth_uri(uri, entry_name)
\* lines 124-159 are, statement for statement, lines 234-269 of config_flow.py;
\* lines 160-169: the returned dict carries the entry name
coordinator_parse_otpauth_uri(uri, entry_name) ==
    LET otp_data == otpauth_of_parsed(urlparse(uri))
    IN  IF otp_data.tag # "ok" THEN Rejected ELSE [entry_name |-> entry_name] @@ otp_data

\* KeePassXCOTPCoordinator._extract_otp_from_entry(entry)
\* lines 98-109: the value of the first property named otp/totp/otpauth (any
\* case), entry.otp when there is none or its value is empty
coordinator_otp_uri(entry) ==
    IF /\ \E i \in 1..Len(entry.custom_properties) :
              str_lower(entry.custom_properties[i].name) \in OtpPropertyNames
       /\ Truthy(entry.custom_properties[
               first_index({i \in 1..Len(entry.custom_properties) :
                               str_lower(entry.custom_properties[i].name) \in OtpPropertyNames})].value)
    THEN entry.custom_properties[
             first_index({i \in 1..Len(entry.custom_properties) :
                             str_lower(entry.custom_properties[i].name) \in OtpPropertyNames})].value
    ELSE entry.otp

\* lines 111-120
coordinator_extract_otp_from_entry(entry) ==
    LET otp_uri == coordinator_otp_uri(entry)
    IN  IF ~Truthy(otp_uri) THEN Rejected
        ELSE IF ~startswith(otp_uri, <<"o","t","p","a","u","t","h",":","/","/">>) THEN Rejected
        ELSE coordinator_parse_otpauth_uri(otp_uri, entry.title)

\* the loop of _load_otp_entries over kp.entries: entry uuid -> OTP data
\* lines 83-90
RECURSIVE load_loop(_, _)
load_loop(entries, n) ==
    IF n = 0 THEN EmptyDict
    ELSE LET otp_data == coordinator_extract_otp_from_entry(entries[n])
         IN  IF otp_data.tag = "ok"
             THEN dict_set(load_loop(entries, n - 1), entries[n].uuid, otp_data)
             ELSE load_loop(entries, n - 1)

\* KeePassXCOTPCoordinator._async_update_data: _load_otp_entries opens the database
\* at database_path with the stored password and key file and extracts its entries;
\* any exception becomes UpdateFailed
async_update_data(db_content, password, keyfile) ==
    LET kp == PyKeePass(db_content, password, keyfile)
    IN  IF db_content = NoFile THEN [result |-> "UpdateFailed", opened |-> TRUE, data |-> EmptyDict]
        ELSE IF kp.result # "ok" THEN [result |-> "UpdateFailed", opened |-> TRUE, data |-> EmptyDict]
        ELSE [result |-> "ok", opened |-> TRUE, data |-> load_loop(kp.entries, Len(kp.entries))]

\* ------------------------------------------------------------------------
\* pyotp.TOTP as called by the sensor
\* ------------------------------------------------------------------------
\* base64.b32decode(padded secret, casefold=True) succeeds
valid_base32(secret) ==
    /\ \A i \in 1..Len(secret) : IsBase32AnyCase(secret[i])
    /\ Len(secret) % 8 \notin {1, 3, 6}

\* the largest digit count pyotp accepts
MaxOtpDigits == 10

DigestSalt(digest) == CASE digest = "sha1" -> 1 [] digest = "sha256" -> 2 [] OTHER -> 3

RECURSIVE SecretSum(_, _)
SecretSum(secret, n) ==
    IF n = 0 THEN 0
    ELSE SecretSum(secret, n - 1) + n * (CharIdx(UpperAlpha \o Base32Digits, upper_char(secret[n])))

\* the dynamically truncated HMAC of the counter under the secret: 31 bits
hmac_truncated(secret, counter, digest) ==
    (SecretSum(secret, Len(secret)) * 1009 + counter * 7919 + DigestSalt(digest) * 104729) % 2147483647

RECURSIVE int_str(_)
int_str(n) == IF n < 10 THEN <<Digits09[n + 1]>> ELSE int_str(n \div 10) \o <<Digits09[(n % 10) + 1]>>

\* str.zfill(width)
zfill(s, width) == IF Len(s) >= width THEN s ELSE [i \in 1..(width - Len(s)) |-> "0"] \o s

\* pyotp.TOTP(secret, digits=digits, interval=period).now() at unix time now:
\* raised is "" or the exception; pyotp hashes with its default digest, sha1
\* str(10_000_000_000 + code % 10 ** digits): "1" and ten digits
totp_code_str(code, digits) ==
    <<"1">> \o zfill(int_str(IF digits >= MaxOtpDigits THEN code ELSE code % (10 ^ digits)), MaxOtpDigits)

\* str_code[-digits:] of the code string at this counter
totp_at(secret, digits, counter) ==
    LET str_code == totp_code_str(hmac_truncated(secret, counter, "sha1"), digits)
    IN  IF digits = 0 THEN str_code ELSE SubSeq(str_code, Len(str_code) - digits + 1, Len(str_code))

totp_now(secret, digits, period, now) ==
    IF digits > MaxOtpDigits \/ digits < 0 THEN [raised |-> "ValueError", code |-> <<>>]
    ELSE IF period = 0 THEN [raised |-> "ZeroDivisionError", code |-> <<>>]
    ELSE IF period < 0 /\ now >= 0 - period THEN [raised |-> "ValueError", code |-> <<>>]
    ELSE IF ~valid_base32(secret) THEN [raised |-> "binascii.Error", code |-> <<>>]
    ELSE [raised |-> "", code |-> totp_at(secret, digits, IF period < 0 THEN 0 ELSE now \div period)]

\* ------------------------------------------------------------------------
\* sensor.py: KeePassXCOTPSensor
\* ------------------------------------------------------------------------
\* a remainder that is always 0
py_mod_zero(a, b) == 0

\* a % b of Python for b # 0: the result has the sign of b
py_mod(a, b) == IF b > 0 THEN a % b ELSE 0 - ((0 - a) % (0 - b))

\* KeePassXCOTPSensor.native_value: the try block returns the code, the except
\* branch logs and returns None
native_value(coordinator_data, entry_uuid, now) ==
    IF entry_uuid \notin DOMAIN coordinator_data THEN [value |-> None, raised |-> ""]
    ELSE LET otp_data == coordinator_data[entry_uuid]
             totp     == totp_now(otp_data.secret, otp_data.digits, otp_data.period, now)
         IN  IF totp.raised # "" THEN [value |-> None, raised |-> ""]
             ELSE [value |-> zfill(totp.code, otp_data.digits), raised |-> ""]

\* KeePassXCOTPSensor.extra_state_attributes (lines 241-263): no try block
extra_state_attributes(coordinator_data, entry_uuid, now) ==
    IF entry_uuid \notin DOMAIN coordinator_data THEN [attributes |-> EmptyDict, raised |-> ""]
    ELSE LET otp_data == coordinator_data[entry_uuid]
         IN  IF otp_data.period = 0 THEN [attributes |-> EmptyDict, raised |-> "ZeroDivisionError"]
             ELSE [attributes |->
                      [k \in {"entry_name", "time_remaining", "period"}
                             \cup (IF Truthy(otp_data.issuer) THEN {"issuer"} ELSE {})
                             \cup (IF Truthy(otp_data.account) THEN {"account"} ELSE {}) |->
                          CASE k = "entry_name"     -> otp_data.entry_name
                            [] k = "time_remaining" -> otp_data.period - py_mod(now, otp_data.period)
                            [] k = "period"         -> otp_data.period
                            [] k = "issuer"         -> otp_data.issuer
                            [] OTHER                -> otp_data.account],
                   raised |-> ""]
\* ------------------------------------------------------------------------
\* State
\* ------------------------------------------------------------------------
VARIABLES
    kp_entries,     \* the entries of the database an import pass runs on
    import_pc,      \* "start" before the pass, "done" after it
    import_state,   \* the loop state of the pass (otp_secrets, import_stats)
    uri_call,       \* a call of _parse_otpauth_uri: its argument and what it returned
    files,          \* the storage directory: file name -> content
    tmp_files,      \* the temporary copies that exist in the temp directory
    config_entries, \* the host's config entries of this domain, by entry id 1..n
    flows,          \* the config flows in progress, by flow id
    hass_data,      \* hass.data[DOMAIN]: entry id -> entry data
    last_call,      \* what the last call of validate_input did
    db_at_path,     \* sensor platform: the file at database_path
    sensor_entry,   \* sensor platform: the data of the config entry it is set up from
    setup_status,   \* sensor platform: outcome of async_setup_entry
    coordinator,    \* the coordinator's data and last_update_success
    sensors,        \* the entry uuids a KeePassXCOTPSensor exists for
    now,            \* int(time.time())
    last_write,     \* what the last state write of a sensor read from its accessors
    last_tick       \* what the last poll tick did

import_vars == <<kp_entries, import_pc, import_state, uri_call>>

flow_vars == <<files, tmp_files, config_entries, flows, hass_data, last_call>>

sensor_vars == <<db_at_path, sensor_entry, setup_status, coordinator, sensors, now, last_write, last_tick>>

vars == <<import_vars, flow_vars, sensor_vars>>

\* ------------------------------------------------------------------------
\* Idle values of the three groups of variables
\* ------------------------------------------------------------------------
NoCall == [called |-> FALSE]


ImportIdle ==
    /\ kp_entries = <<>>
    /\ import_pc = "idle"
    /\ import_state = ImportStart(<<>>)
    /\ uri_call = NoCall

FlowIdle ==
    /\ files = [n \in {"database.kdbx", "key.key"} |-> NoFile]
    /\ tmp_files = {}
    /\ config_entries = <<>>
    /\ flows = <<>>
    /\ hass_data = EmptyDict
    /\ last_call = NoCall

SensorIdle ==
    /\ db_at_path = NoFile
    /\ sensor_entry = EmptyDict
    /\ setup_status = "idle"
    /\ coordinator = [data |-> EmptyDict, last_update_success |-> FALSE]
    /\ sensors = {}
    /\ now = 0
    /\ last_write = [written |-> FALSE]
    /\ last_tick = [ticked |-> FALSE]

\* ------------------------------------------------------------------------
\* The import pass on its own
\* ------------------------------------------------------------------------
InitImport ==
    /\ kp_entries \in EntryLists(EntryPool, MaxEntries)
    /\ import_pc = "start"
    /\ import_state = ImportStart(kp_entries)
    /\ uri_call = NoCall
    /\ FlowIdle
    /\ SensorIdle

RunImportPass ==
    /\ import_pc = "start"
    /\ import_pc' = "done"
    /\ import_state' = import_pass(kp_entries)
    /\ UNCHANGED <<kp_entries, uri_call, flow_vars, sensor_vars>>

NextImport == RunImportPass

SpecImport == InitImport /\ [][NextImport]_vars

\* ------------------------------------------------------------------------
\* _parse_otpauth_uri on its own
\* ------------------------------------------------------------------------
\* the parts a URI is written from; a parameter is None when the query does not
\* have it, and the empty string when the query has it with nothing after "="
UriParts ==
    [scheme    : {<<"o","t","p","a","u","t","h">>, <<"h","t","t","p","s">>},
     type      : {<<"t","o","t","p">>, <<"h","o","t","p">>, <<"s","t","e","a","m">>, <<"T","O","T","P">>},
     label     : {<<"E","x","a","m","p","l","e",":","a","l","i","c","e">>, <<"a","l","i","c","e">>, <<"A","c","m","e",":","a",":","b">>, <<>>},
     secret    : {None, <<>>, Secrets.A},
     issuer    : {None, <<>>, <<"E","x","a","m","p","l","e">>},
     period    : {None, <<"3","0">>, <<"6","0">>, <<"x">>},
     digits    : {None, <<>>, <<"6">>, <<"8">>},
     algorithm : {None, <<>>, <<"S","H","A","2","5","6">>}]

\* the URI text: scheme://type/label?name=value&...
uri_of(parts) ==
    LET field(name, value) == IF value = None THEN <<>> ELSE <<"&">> \o name \o <<"=">> \o value
        query == field(<<"s","e","c","r","e","t">>, parts.secret) \o field(<<"i","s","s","u","e","r">>, parts.issuer)
                 \o field(<<"p","e","r","i","o","d">>, parts.period) \o field(<<"d","i","g","i","t","s">>, parts.digits)
                 \o field(<<"a","l","g","o","r","i","t","h","m">>, parts.algorithm)
    IN  parts.scheme \o <<":","/","/">> \o parts.type \o <<"/">> \o parts.label
        \o (IF query = <<>> THEN <<>> ELSE <<"?">> \o Tail(query))

InitParse ==
    /\ kp_entries = <<>>
    /\ import_pc = "idle"
    /\ import_state = ImportStart(<<>>)
    /\ uri_call \in {[called |-> FALSE, parts |-> p, uri |-> uri_of(p), result |-> Rejected,
                      coordinator_result |-> Rejected] : p \in UriParts}
    /\ FlowIdle
    /\ SensorIdle

\* _parse_otpauth_uri(uri, entry_name), and the coordinator's method of the same name
ParseUri ==
    /\ ~uri_call.called
    /\ uri_call' = [uri_call EXCEPT !.called = TRUE,
                                    !.result = parse_otpauth_uri(uri_call.uri),
                                    !.coordinator_result =
                                        coordinator_parse_otpauth_uri(uri_call.uri, <<"E","x","a","m","p","l","e">>)]
    /\ UNCHANGED <<kp_entries, import_pc, import_state, flow_vars, sensor_vars>>

NextParse == ParseUri

SpecParse == InitParse /\ [][NextParse]_vars

\* ------------------------------------------------------------------------
\* The sensor platform on its own (sensor.py)
\* ------------------------------------------------------------------------
\* the names sensor.py imports from const.py (lines 26-37)
SensorConstImports ==
    {"ATTR_ACCOUNT", "ATTR_ENTRY_NAME", "ATTR_ISSUER", "ATTR_PERIOD", "ATTR_TIME_REMAINING",
     "CONF_DATABASE_PATH", "CONF_KEYFILE", "CONF_PASSWORD", "DOMAIN", "UPDATE_INTERVAL"}

\* the names const.py defines
ConstNames ==
    {"DOMAIN", "CONF_DATABASE_FILE", "CONF_PASSWORD", "CONF_KEYFILE_FILE", "CONF_OTP_SECRETS",
     "CONF_IMPORT_STATS", "UPDATE_INTERVAL", "DEFAULT_NAME", "ATTR_ENTRY_NAME", "ATTR_ISSUER",
     "ATTR_ACCOUNT", "ATTR_TIME_REMAINING", "ATTR_PERIOD", "sanitize_entity_name",
     "sanitize_path_component"}

\* importing sensor.py succeeds
SensorModuleLoads == SensorConstImports \subseteq ConstNames

CONF_PASSWORD == "password"

\* const.py defines neither name; the sensor-only specification reads them as
\* the keys their identifiers name
CONF_DATABASE_PATH == "database_path"

CONF_KEYFILE == "keyfile"

\* the keys async_setup_entry of sensor.py subscripts in config_entry.data (lines 181-182)
SensorRequiredKeys == {CONF_DATABASE_PATH, CONF_PASSWORD}

\* the key file the coordinator passes to PyKeePass: none for the path None
KeyfileAt(path) == IF path = NoPath THEN NoFile ELSE KeyFile

\* sensor.async_setup_entry on the entry data: KeyError when a subscripted key is
\* missing, ConfigEntryNotReady when the first refresh fails, else one sensor per
\* entry of coordinator.data
sensor_async_setup_entry(entry_data, db_content) ==
    IF ~(SensorRequiredKeys \subseteq DOMAIN entry_data)
    THEN [status |-> "KeyError", data |-> EmptyDict, sensors |-> {}]
    ELSE LET upd == async_update_data(db_content, entry_data[CONF_PASSWORD],
                                      KeyfileAt(IF CONF_KEYFILE \in DOMAIN entry_data
                                                THEN entry_data[CONF_KEYFILE] ELSE NoPath))
         IN  IF upd.result # "ok"
             THEN [status |-> "ConfigEntryNotReady", data |-> EmptyDict, sensors |-> {}]
             ELSE [status |-> "ready", data |-> upd.data, sensors |-> DOMAIN upd.data]

\* the entries a sensor platform is loaded with: one of the pool, one with
\* algorithm SHA256, and a zero period, a secret that is not base32, more digits
\* than pyotp accepts (with a period of 60), no digits
SensorPool ==
    {Entries.GitHub,
     Entry("s5", <<"C","o","r","p">>, None, None, None, <<>>,
           <<"o","t","p","a","u","t","h",":","/","/","t","o","t","p","/","C","o","r","p",":","e","v","e","?","s","e","c","r","e","t","=">> \o Secrets.C \o <<"&","a","l","g","o","r","i","t","h","m","=","S","H","A","2","5","6">>),
     Entry("s1", <<"Z","e","r","o">>, None, None, None, <<>>, <<"o","t","p","a","u","t","h",":","/","/","t","o","t","p","/","z","?","s","e","c","r","e","t","=">> \o Secrets.B \o <<"&","p","e","r","i","o","d","=","0">>),
     Entry("s2", <<"J","u","n","k">>, None, None, None, <<>>, <<"o","t","p","a","u","t","h",":","/","/","t","o","t","p","/","j","?","s","e","c","r","e","t","=","n","o","t","+","b","a","s","e","3","2","!">>),
     Entry("s3", <<"W","i","d","e">>, None, None, None, <<>>, <<"o","t","p","a","u","t","h",":","/","/","t","o","t","p","/","w","?","s","e","c","r","e","t","=">> \o Secrets.C \o <<"&","d","i","g","i","t","s","=","1","2","&","p","e","r","i","o","d","=","6","0">>),
     Entry("s4", <<"N","i","l">>, None, None, None, <<>>, <<"o","t","p","a","u","t","h",":","/","/","t","o","t","p","/","d","?","s","e","c","r","e","t","=">> \o Secrets.A \o <<"&","d","i","g","i","t","s","=","0">>)}

MaxSensorEntries == 2

MaxTime == 30

InitSensor ==
    /\ ImportIdle
    /\ FlowIdle
    /\ db_at_path \in {Kdbx(l, FALSE) : l \in EntryLists(SensorPool, MaxSensorEntries)}
    /\ sensor_entry \in {[database_path |-> "db.kdbx", password |-> pw, keyfile |-> NoPath] :
                            pw \in {MasterPassword, "wrong"}}
    /\ setup_status = "not_setup"
    /\ coordinator = [data |-> EmptyDict, last_update_success |-> FALSE]
    /\ sensors = {}
    /\ now = 0
    /\ last_write = [written |-> FALSE]
    /\ last_tick = [ticked |-> FALSE]

SensorSetupEntry ==
    /\ setup_status # "ready"
    /\ \E r \in {sensor_async_setup_entry(sensor_entry, db_at_path)} :
          /\ setup_status' = r.status
          /\ coordinator' = [data |-> r.data, last_update_success |-> r.status = "ready"]
          /\ sensors' = r.sensors
    /\ UNCHANGED <<import_vars, flow_vars, db_at_path, sensor_entry, now, last_write, last_tick>>

\* the update coordinator's periodic refresh: _async_update_data
PollTick ==
    /\ setup_status = "ready"
    /\ \E upd \in {async_update_data(db_at_path, sensor_entry[CONF_PASSWORD],
                                      KeyfileAt(sensor_entry[CONF_KEYFILE]))} :
          /\ coordinator' = IF upd.result = "ok"
                            THEN [data |-> upd.data, last_update_success |-> TRUE]
                            ELSE [coordinator EXCEPT !.last_update_success = FALSE]
          /\ last_tick' = [ticked |-> TRUE, opened_db |-> upd.opened, reextracted |-> upd.result = "ok"]
    /\ UNCHANGED <<import_vars, flow_vars, db_at_path, sensor_entry, setup_status, sensors, now, last_write>>

\* the host writes the state of one sensor: it reads native_value and extra_state_attributes
WriteState(entry_uuid) ==
    /\ setup_status = "ready"
    /\ entry_uuid \in sensors
    /\ \E v \in {native_value(coordinator.data, entry_uuid, now)},
          a \in {extra_state_attributes(coordinator.data, entry_uuid, now)} :
          last_write' = [written |-> TRUE, at |-> now, entry_uuid |-> entry_uuid, value |-> v.value,
                         value_raised |-> v.raised, attributes |-> a.attributes,
                         attributes_raised |-> a.raised]
    /\ UNCHANGED <<import_vars, flow_vars, db_at_path, sensor_entry, setup_status, coordinator,
                   sensors, now, last_tick>>

AdvanceTime(d) ==
    /\ now + d <= MaxTime
    /\ now' = now + d
    /\ UNCHANGED <<import_vars, flow_vars, db_at_path, sensor_entry, setup_status, coordinator,
                   sensors, last_write, last_tick>>

\* the user deletes the last entry of the database file, outside the program
RemoveEntry ==
    /\ db_at_path.kind = "kdbx"
    /\ db_at_path.entries # <<>>
    /\ db_at_path' = [db_at_path EXCEPT !.entries = SubSeq(@, 1, Len(@) - 1)]
    /\ UNCHANGED <<import_vars, flow_vars, sensor_entry, setup_status, coordinator, sensors, now,
                   last_write, last_tick>>

NextSensor ==
    \/ SensorSetupEntry
    \/ PollTick
    \/ \E u \in sensors : WriteState(u)
    \/ \E d \in {5, 30} : AdvanceTime(d)
    \/ RemoveEntry

SpecSensor == InitSensor /\ [][NextSensor]_vars

\* ------------------------------------------------------------------------
\* The wizards and the entry lifecycle (config_flow.py, __init__.py)
\* ------------------------------------------------------------------------
FlowIds == {1}

EntryIds == {1, 2}

\* the person entities of the host: entity id -> (person_name, person_id) of _get_person_info
PersonInfo ==
    [p \in {"person.alice", "person.bob"} |->
        IF p = "person.alice" THEN [person_name |-> "Alice", person_id |-> "alice"]
        ELSE [person_name |-> "Bob", person_id |-> "bob"]]

\* the database files a user puts into the storage directory
UploadedDatabases ==
    {Kdbx(<<Entries.GitHub, Entries.Mirror>>, FALSE),
     Kdbx(<<Entries.RefNotes, Entries.Mail>>, TRUE),
     Kdbx(<<Entries.Plain, Entries.Short>>, FALSE),
     Kdbx(<<Entries.Key, Entries.NoTitleKey, Entries.GitHub>>, FALSE),
     Garbage}

Storage(db, kf) == [n \in {"database.kdbx", "key.key"} |-> IF n = "database.kdbx" THEN db ELSE kf]

\* every content of the storage directory
StorageStates ==
    {Storage(db, kf) : db \in UploadedDatabases \cup {NoFile}, kf \in {NoFile, KeyFile, EmptyKeyFile}}

\* what the wizards' user puts into the storage directory before a step
WizardUploads ==
    {Storage(Kdbx(<<Entries.GitHub, Entries.Mirror>>, FALSE), NoFile),
     Storage(Kdbx(<<Entries.RefNotes, Entries.Mail>>, TRUE), KeyFile),
     Storage(Kdbx(<<Entries.Plain, Entries.Short>>, FALSE), NoFile),
     Storage(Garbage, NoFile)}

\* the faults a wizard step meets
WizardFaults == {"none", "read"}

UserInputs ==
    [database_file : {"database.kdbx"}, password : {MasterPassword, "wrong"}, keyfile_file : {"", "key.key"}]

NewFlow ==
    [step |-> "none", import_stats |-> None, pending_data |-> None,
     reconfigure |-> FALSE, entry_id |-> 0]

\* validate_input on every content of the storage directory, input and fault
Validated ==
    [fs \in StorageStates, data \in UserInputs, fault \in Faults |-> validate_input(fs, data, fault)]

KnownErrorCodes ==
    {"database_not_found", "keyfile_not_found", "invalid_auth", "cannot_connect", "no_otp_entries"}

\* the same branches without the one for "no_otp_entries"
error_code_without_no_otp(info) ==
    IF info.result = "ValueError" /\ info.msg \in KnownErrorCodes \ {"no_otp_entries"}
    THEN info.msg ELSE "unknown"

\* the except branches of async_step_user and async_step_reconfigure (lines 714-730, 630-646)
error_code(info) ==
    IF info.result = "ValueError" /\ info.msg \in KnownErrorCodes THEN info.msg ELSE "unknown"

\* a data dict that leaves the records of the import out
entry_data_without_records(person_entity_id, person_name, person_id, user_input, info) ==
    [person_entity_id |-> person_entity_id,
     person_name      |-> person_name,
     person_id        |-> person_id,
     database_file    |-> user_input.database_file,
     keyfile_file     |-> user_input.keyfile_file,
     otp_secrets      |-> EmptyDict]

\* the data dict of a config entry (lines 702-709 and 609-616)
entry_data(person_entity_id, person_name, person_id, user_input, info) ==
    [person_entity_id |-> person_entity_id,
     person_name      |-> person_name,
     person_id        |-> person_id,
     database_file    |-> user_input.database_file,
     keyfile_file     |-> user_input.keyfile_file,
     otp_secrets      |-> info.otp_secrets]

\* a key file with at least one byte
has_bytes(kf) == kf # NoFile /\ kf.bytes # ""

\* why a call of validate_input on these files, with this input and fault, cannot import
cause_of(data, fault, db, kf) ==
    IF db = NoFile THEN "database_missing"
    ELSE IF data.keyfile_file # NoPath /\ kf = NoFile THEN "keyfile_missing"
    ELSE IF fault = "read" \/ fault = "write_db_temp" \/ (fault = "write_kf_temp" /\ has_bytes(kf))
    THEN "io_error"
    ELSE IF db.kind # "kdbx" THEN "not_a_database"
    ELSE IF data.password # MasterPassword \/ db.keyed # has_bytes(kf) THEN "bad_credentials"
    ELSE IF \E i \in 1..Len(db.entries) : extract_otp_from_entry(db.entries[i]).tag = "raise"
    THEN "entry_error"
    ELSE IF \A i \in 1..Len(db.entries) : extract_otp_from_entry(db.entries[i]).tag # "ok"
    THEN "no_otp_data"
    ELSE "none"

Cause(fs, data, fault) ==
    cause_of(data, fault, fs[data.database_file],
               IF data.keyfile_file = NoPath THEN NoFile ELSE fs[data.keyfile_file])

\* what a wizard step showed and did: the errors of the form it returned, why
\* validate_input could not import, whether the step changed the config entries
step_record(kind, f, cause, key, code, before, after) ==
    [called |-> TRUE, kind |-> kind, flow |-> f, cause |-> cause, error_key |-> key,
     error |-> code, entries_changed |-> after # before,
     records_dropped |-> UNION {DOMAIN before[e].data.otp_secrets : e \in 1..Len(before)}
                         \ UNION {DOMAIN after[e].data.otp_secrets : e \in 1..Len(after)}]

\* the sensor platform as the host forwards an entry to it: the import of sensor.py
\* fails when a name it imports from const.py is missing; required are the keys its
\* async_setup_entry subscripts in the entry data
forward_entry_setup(data, fs) ==
    IF ~SensorModuleLoads
    THEN [status |-> "ImportError", data |-> EmptyDict, required |-> SensorRequiredKeys]
    ELSE LET r == sensor_async_setup_entry(data,
                      IF CONF_DATABASE_PATH \in DOMAIN data /\ data[CONF_DATABASE_PATH] \in DOMAIN fs
                      THEN fs[data[CONF_DATABASE_PATH]] ELSE NoFile)
         IN  [status |-> r.status, data |-> r.data, required |-> SensorRequiredKeys]

NotForwarded == [status |-> "not_loaded", data |-> EmptyDict, required |-> {}]

\* __init__.async_setup_entry: register the entry data, forward to the sensor platform
async_setup_entry(registry, entry_id, entry, fs) ==
    [hass_data |-> dict_set(registry, entry_id, entry.data),
     entry     |-> [entry EXCEPT !.state = "loaded", !.platform = forward_entry_setup(entry.data, fs)]]

\* a pop that empties the dict
dict_pop_every(d, k) == EmptyDict

dict_pop(d, k) == [x \in DOMAIN d \ {k} |-> d[x]]

\* __init__.async_unload_entry: the registry loses the entry when the platforms unload
async_unload_entry(registry, entry_id, entry, unload_ok) ==
    IF unload_ok
    THEN [hass_data |-> dict_pop(registry, entry_id), ok |-> TRUE,
          entry |-> [entry EXCEPT !.state = "not_loaded", !.platform = NotForwarded]]
    ELSE [hass_data |-> registry, ok |-> FALSE, entry |-> [entry EXCEPT !.state = "failed_unload"]]

\* hass.config_entries.async_reload: unload a loaded entry, then set it up. The
\* host refuses to unload an entry whose last unload failed (the state is not
\* recoverable) and raises OperationNotAllowed.
async_reload(registry, entry_id, entry, fs, unload_ok) ==
    IF entry.state = "failed_unload"
    THEN [hass_data |-> registry, entry |-> entry, raised |-> "OperationNotAllowed"]
    ELSE LET u == IF entry.state = "loaded"
                  THEN async_unload_entry(registry, entry_id, entry, unload_ok)
                  ELSE [hass_data |-> registry, ok |-> TRUE, entry |-> entry]
         IN  IF ~u.ok THEN [hass_data |-> u.hass_data, entry |-> u.entry, raised |-> ""]
             ELSE [raised |-> ""] @@ async_setup_entry(u.hass_data, entry_id, u.entry, fs)

InitFlows ==
    /\ ImportIdle
    /\ SensorIdle
    /\ files = Storage(NoFile, NoFile)
    /\ tmp_files = {}
    /\ config_entries = <<>>
    /\ flows = [f \in FlowIds |-> NewFlow]
    /\ hass_data = EmptyDict
    /\ last_call = NoCall

\* the user copies a database file and possibly a key file into the storage directory
Upload(fs) ==
    /\ files' = fs
    /\ last_call' = NoCall
    /\ UNCHANGED <<import_vars, sensor_vars, tmp_files, config_entries, flows, hass_data>>

\* a setup flow starts: async_step_user(None) shows the form
StartUserFlow(f) ==
    /\ flows[f].step = "none"
    /\ flows' = [flows EXCEPT ![f] = [NewFlow EXCEPT !.step = "user"]]
    /\ last_call' = NoCall
    /\ UNCHANGED <<import_vars, sensor_vars, files, tmp_files, config_entries, hass_data>>

\* a reconfigure flow starts for an entry: async_step_reconfigure(None) shows the form
StartReconfigureFlow(f, e) ==
    /\ flows[f].step = "none"
    /\ e \in 1..Len(config_entries)
    /\ flows' = [flows EXCEPT ![f] = [NewFlow EXCEPT !.step = "reconfigure", !.entry_id = e]]
    /\ last_call' = NoCall
    /\ UNCHANGED <<import_vars, sensor_vars, files, tmp_files, config_entries, hass_data>>

\* async_step_user(user_input)
async_step_user(f, person_entity_id, user_input, fault) ==
    /\ flows[f].step = "user"
    /\ UNCHANGED <<import_vars, sensor_vars, config_entries, hass_data>>
    /\ IF person_entity_id \notin DOMAIN PersonInfo
       THEN /\ last_call' = step_record("user", f, "no_person", "person_entity_id", "person_not_found",
                                        config_entries, config_entries)
            /\ UNCHANGED <<files, tmp_files, flows>>
       ELSE IF \E e \in 1..Len(config_entries) : config_entries[e].data.person_entity_id = person_entity_id
       THEN /\ last_call' = step_record("user", f, "configured", "base", "person_already_configured",
                                        config_entries, config_entries)
            /\ UNCHANGED <<files, tmp_files, flows>>
       ELSE \E info \in {Validated[files, user_input, fault]} :
               /\ files' = info.files
               /\ tmp_files' = tmp_files \cup info.tmp_left
               /\ IF info.result = "ok"
                  THEN /\ flows' = [flows EXCEPT ![f].step = "import_report",
                                                 ![f].import_stats = info.import_stats,
                                                 ![f].pending_data =
                                                     entry_data(person_entity_id,
                                                                PersonInfo[person_entity_id].person_name,
                                                                PersonInfo[person_entity_id].person_id,
                                                                user_input, info)]
                       /\ last_call' = step_record("user", f, Cause(files, user_input, fault), "", "",
                                                   config_entries, config_entries')
                  ELSE /\ flows' = flows
                       /\ last_call' = step_record("user", f, Cause(files, user_input, fault),
                                                   "base", error_code(info),
                                                   config_entries, config_entries')

\* async_step_import_report(user_input) when the user confirms the report: a
\* reconfigure flow ends, a setup flow creates its entry
async_step_import_report(f) ==
    /\ flows[f].step = "import_report"
    /\ IF flows[f].reconfigure
       THEN UNCHANGED config_entries
       ELSE /\ Len(config_entries) < Cardinality(EntryIds)
            /\ config_entries' = Append(config_entries,
                                        [data |-> flows[f].pending_data, state |-> "not_loaded",
                                         platform |-> NotForwarded])
    /\ flows' = [flows EXCEPT ![f] = NewFlow]
    /\ last_call' = step_record("import_report", f, "none", "", "", config_entries, config_entries')
    /\ UNCHANGED <<import_vars, sensor_vars, files, tmp_files, hass_data>>

\* an update that keeps the records of the previous import next to the new ones
updated_entry_merging(entry, user_input, info) ==
    [entry EXCEPT !.data = entry_data(entry.data.person_entity_id, entry.data.person_name,
                                      entry.data.person_id, user_input,
                                      [info EXCEPT !.otp_secrets = @ @@ entry.data.otp_secrets])]

\* async_update_entry (lines 607-617): the entry with the data of the new import
updated_entry(entry, user_input, info) ==
    [entry EXCEPT !.data = entry_data(entry.data.person_entity_id, entry.data.person_name,
                                      entry.data.person_id, user_input, info)]

\* async_step_reconfigure(user_input); unload_ok is what the reload's unload returns
async_step_reconfigure(f, user_input, fault, unload_ok) ==
    /\ flows[f].step = "reconfigure"
    /\ \E e \in {flows[f].entry_id}, info \in {Validated[files, user_input, fault]} :
          /\ files' = info.files
          /\ tmp_files' = tmp_files \cup info.tmp_left
          /\ IF info.result = "ok"
             THEN /\ \E r \in {async_reload(hass_data, e, updated_entry(config_entries[e], user_input, info),
                                            info.files, unload_ok)} :
                        /\ config_entries' = [config_entries EXCEPT ![e] = r.entry]
                        /\ hass_data' = r.hass_data
                        \* an exception of async_reload (line 625) reaches "except Exception"
                        \* (lines 644-646) after lines 603-617 have run
                        /\ flows' = [flows EXCEPT ![f].step = IF r.raised = "" THEN "import_report" ELSE @,
                                                  ![f].import_stats = info.import_stats,
                                                  ![f].reconfigure = TRUE]
                        /\ last_call' = IF r.raised = ""
                                        THEN step_record("reconfigure", f, Cause(files, user_input, fault),
                                                         "", "", config_entries, config_entries')
                                        ELSE step_record("reconfigure", f, "reload_error",
                                                         "base", "unknown", config_entries, config_entries')
             ELSE /\ UNCHANGED <<config_entries, hass_data, flows>>
                  /\ last_call' = step_record("reconfigure", f, Cause(files, user_input, fault),
                                              "base", error_code(info),
                                              config_entries, config_entries')
    /\ UNCHANGED <<import_vars, sensor_vars>>

\* the host sets up an entry that is not loaded
SetupEntry(e) ==
    /\ e \in 1..Len(config_entries)
    /\ config_entries[e].state = "not_loaded"
    /\ \E r \in {async_setup_entry(hass_data, e, config_entries[e], files)} :
          /\ hass_data' = r.hass_data
          /\ config_entries' = [config_entries EXCEPT ![e] = r.entry]
    /\ last_call' = NoCall
    /\ UNCHANGED <<import_vars, sensor_vars, files, tmp_files, flows>>

\* the host unloads a loaded entry; unload_ok is what async_unload_platforms returns
UnloadEntry(e, unload_ok) ==
    /\ e \in 1..Len(config_entries)
    /\ config_entries[e].state = "loaded"
    /\ \E r \in {async_unload_entry(hass_data, e, config_entries[e], unload_ok)} :
          /\ hass_data' = r.hass_data
          /\ config_entries' = [config_entries EXCEPT ![e] = r.entry]
    /\ last_call' = NoCall
    /\ UNCHANGED <<import_vars, sensor_vars, files, tmp_files, flows>>

Next ==
    \/ \E fs \in WizardUploads : Upload(fs)
    \/ \E f \in FlowIds : StartUserFlow(f)
    \/ \E f \in FlowIds, e \in EntryIds : StartReconfigureFlow(f, e)
    \/ \E f \in FlowIds, p \in DOMAIN PersonInfo \cup {"person.ghost"}, ui \in UserInputs, fault \in WizardFaults :
          async_step_user(f, p, ui, fault)
    \/ \E f \in FlowIds : async_step_import_report(f)
    \/ \E f \in FlowIds, ui \in UserInputs, fault \in WizardFaults, ok \in BOOLEAN :
          async_step_reconfigure(f, ui, fault, ok)
    \/ \E e \in EntryIds : SetupEntry(e)
    \/ \E e \in EntryIds, ok \in BOOLEAN : UnloadEntry(e, ok)

Spec == InitFlows /\ [][Next]_vars

\* ------------------------------------------------------------------------
\* Two setup flows in progress at once: the host runs one step at a time, the
\* steps of the two flows in any order
\* ------------------------------------------------------------------------
InitTwoFlows ==
    /\ ImportIdle
    /\ SensorIdle
    /\ files = Storage(NoFile, NoFile)
    /\ tmp_files = {}
    /\ config_entries = <<>>
    /\ flows = [f \in {1, 2} |-> NewFlow]
    /\ hass_data = EmptyDict
    /\ last_call = NoCall

NextTwoFlows ==
    \/ \E fs \in {Storage(Kdbx(<<Entries.GitHub, Entries.Mirror>>, FALSE), NoFile),
                   Storage(Kdbx(<<Entries.Plain, Entries.Short>>, FALSE), NoFile)} : Upload(fs)
    \/ \E f \in {1, 2} : StartUserFlow(f)
    \/ \E f \in {1, 2}, p \in DOMAIN PersonInfo, ui \in UserInputs :
          async_step_user(f, p, ui, "none")
    \/ \E f \in {1, 2} : async_step_import_report(f)

SpecTwoFlows == InitTwoFlows /\ [][NextTwoFlows]_vars

\* ------------------------------------------------------------------------
\* validate_input on its own: the storage directory and the temp directory
\* ------------------------------------------------------------------------
\* what a call of validate_input did and left behind; executor holds the blocking
\* operations it passed to hass.async_add_executor_job (lines 336-349, 377),
\* event_loop those it called itself (lines 357-373, 476-488)
call_record(fs, data, fault, info) ==
    [called |-> TRUE, cause |-> Cause(fs, data, fault), fault |-> fault,
     executor |-> {"exists"} \cup (IF info.checks_passed THEN {"read"} ELSE {})
                             \cup (IF info.opened THEN {"open"} ELSE {}),
     event_loop |-> IF ~info.entered_try THEN {}
                    ELSE {"write_temp", "exists", "overwrite_delete"}
                         \cup (IF fault # "write_db_temp" THEN {"chmod"} ELSE {}),
     checks_passed |-> info.checks_passed, result |-> info.result, msg |-> info.msg,
     db_left |-> info.files[data.database_file] # NoFile,
     kf_left |-> data.keyfile_file # NoPath /\ info.files[data.keyfile_file] # NoFile,
     tmp_left |-> info.tmp_left, cleanup_raised |-> info.cleanup_raised]

\* one call of validate_input with this input, meeting this fault
CallValidateInput(data, fault) ==
    /\ \E info \in {Validated[files, data, fault]} :
          /\ files' = info.files
          /\ tmp_files' = tmp_files \cup info.tmp_left
          /\ last_call' = call_record(files, data, fault, info)
    /\ UNCHANGED <<import_vars, sensor_vars, config_entries, flows, hass_data>>

NextValidate ==
    \/ \E fs \in StorageStates : Upload(fs)
    \/ \E data \in UserInputs, fault \in Faults : CallValidateInput(data, fault)

\* the call starts from the state the wizards start from
SpecValidate == InitFlows /\ [][NextValidate]_vars

\* ------------------------------------------------------------------------
\* Properties of the import pass
\* ------------------------------------------------------------------------
\* the text "{REF:" occurs in value, compared case-insensitively
MentionsRef(value) ==
    /\ value # None
    /\ \E i \in 1..(Len(value) - 4) : str_lower(SubSeq(value, i, i + 4)) = <<"{","r","e","f",":">>

EntryMentionsRef(entry) ==
    \/ MentionsRef(entry.title) \/ MentionsRef(entry.username) \/ MentionsRef(entry.password)
    \/ MentionsRef(entry.url) \/ MentionsRef(entry.notes)
    \/ \E i \in 1..Len(entry.custom_properties) : MentionsRef(entry.custom_properties[i].value)

\* C1: an entry that has "{REF:" (in any case) in its title, username, password,
\* url, notes or a custom property has no Secret Record under its id in otp_secrets
C1_RefNeverImported ==
    import_pc = "done" =>
        \A i \in 1..Len(kp_entries) :
            EntryMentionsRef(kp_entries[i]) => kp_entries[i].uuid \notin DOMAIN import_state.otp_secrets

\* a pass has run over an entry with a reference and a well-formed URI, and has imported another entry
C1_Witness ==
    /\ import_pc = "done"
    /\ import_state.raised = ""
    /\ \E i \in 1..Len(kp_entries) :
          /\ EntryMentionsRef(kp_entries[i])
          /\ Truthy(otp_from_properties([kp_entries[i] EXCEPT !.custom_properties = <<@[1]>>]))
    /\ import_state.otp_secrets # EmptyDict

\* the OTP data the pass extracts from each entry of the list
Extracted == [i \in 1..Len(kp_entries) |-> extract_otp_from_entry(kp_entries[i])]

\* the entries that carry a secret (their extraction yields OTP data), and of
\* these the ones that no earlier entry shares the secret with
CarrierIdx(ext) == {i \in DOMAIN ext : ext[i].tag = "ok"}

FirstCarrierIdx(ext) ==
    {i \in CarrierIdx(ext) : \A j \in CarrierIdx(ext) : j < i => ext[j].secret # ext[i].secret}

\* C2: a completed pass yields no two records with the same secret; of the entries
\* that carry one secret the first one has the record and each later one is skipped as "Duplicate"
C2_Dedup ==
    (import_pc = "done" /\ import_state.raised = "") =>
        LET recs  == import_state.otp_secrets
            ext   == Extracted
            first == FirstCarrierIdx(ext)
            later == CarrierIdx(ext) \ first
            dups  == {k \in 1..Len(import_state.skipped) : import_state.skipped[k].reason = "Duplicate"}
        IN /\ \A u, v \in DOMAIN recs : recs[u].secret = recs[v].secret => u = v
           /\ DOMAIN recs = {kp_entries[i].uuid : i \in first}
           /\ \A i \in first : recs[kp_entries[i].uuid].secret = ext[i].secret
           /\ \A j \in later : \E k \in dups : import_state.skipped[k].name = kp_entries[j].title
           /\ Cardinality(dups) = Cardinality(later)

\* a completed pass over a list in which two entries carry one secret
C2_Witness ==
    /\ import_pc = "done"
    /\ import_state.raised = ""
    /\ CarrierIdx(Extracted) # FirstCarrierIdx(Extracted)
    /\ \E k \in 1..Len(import_state.skipped) : import_state.skipped[k].reason = "Duplicate"

\* the k-th index of a set of indices, in increasing order
KthIdx(I, k) == CHOOSE i \in I : Cardinality({j \in I : j < i}) = k - 1

\* the entries a pass skips: those whose extraction gives an error, and the
\* carriers of a secret that an earlier entry carries
SkippedIdx(ext) == {i \in DOMAIN ext : ext[i].tag = "error"} \cup (CarrierIdx(ext) \ FirstCarrierIdx(ext))

SkipReasons ==
    {"Contains field references", "Simple key format not supported", "No secret found",
     "Invalid URI format", "Duplicate"}

\* every entry adds exactly one item to the results of the pass: in the order of
\* the list, its title to imported, or its title with one of the five reasons to
\* skipped, or nothing when it carries no OTP data
AccountedOnce ==
    LET ext   == Extracted
        first == FirstCarrierIdx(ext)
        skip  == SkippedIdx(ext)
    IN  /\ Len(import_state.imported) = Cardinality(first)
        /\ \A k \in 1..Len(import_state.imported) :
              import_state.imported[k] = kp_entries[KthIdx(first, k)].title
        /\ Len(import_state.skipped) = Cardinality(skip)
        /\ \A k \in 1..Len(import_state.skipped) :
              /\ import_state.skipped[k].name = kp_entries[KthIdx(skip, k)].title
              /\ import_state.skipped[k].reason \in SkipReasons
              /\ import_state.skipped[k].reason = "Duplicate" <=> KthIdx(skip, k) \in CarrierIdx(ext)
        /\ \A i \in DOMAIN ext : i \notin first \cup skip <=> ext[i].tag = "none"
        /\ Len(import_state.imported) = Cardinality(DOMAIN import_state.otp_secrets)
        /\ import_state.total_entries = Len(kp_entries)
        /\ Len(import_state.imported) + Len(import_state.skipped) <= import_state.total_entries

\* C15: after a completed pass over N entries every entry has added exactly one
\* item to the results (its title to imported, or its title with exactly one of
\* the five reasons to skipped, or nothing when it has no OTP data), the number of
\* imported names is the number of Secret Records, and imported + skipped <=
\* total_entries = N
C15_AccountedOnce == (import_pc = "done" /\ import_state.raised = "") => AccountedOnce

\* a completed pass with an imported entry, a skipped one and one without OTP data
C15_Witness ==
    /\ import_pc = "done"
    /\ import_state.raised = ""
    /\ Len(kp_entries) = 3
    /\ Len(import_state.imported) = 1
    /\ Len(import_state.skipped) = 1
    /\ import_state.skipped[1].reason # "Duplicate"

\* C15 as stated: besides, no name is in both the imported and the skipped list
C15_ListsDisjoint ==
    (import_pc = "done" /\ import_state.raised = "") =>
        /\ AccountedOnce
        /\ \A k \in 1..Len(import_state.imported) : \A m \in 1..Len(import_state.skipped) :
              import_state.imported[k] # import_state.skipped[m].name

\* ------------------------------------------------------------------------
\* Properties of _parse_otpauth_uri
\* ------------------------------------------------------------------------
\* a parameter value written as a decimal integer
IsIntegerText(value) ==
    value # None /\ value # <<>> /\ \A i \in 1..Len(value) : value[i] \in {Digits09[d] : d \in 1..10}

\* C16: the parser rejects every URI whose scheme is not otpauth, whose type is
\* neither totp nor hotp, or whose secret parameter is missing or empty, and it
\* returns parsed fields for every otpauth URI of type totp or hotp with a
\* non-empty secret and integer period and digits (absent ones count as given by default)
C16_Rejections ==
    uri_call.called =>
        /\ (\/ uri_call.parts.scheme # <<"o","t","p","a","u","t","h">>
            \/ uri_call.parts.type \notin {<<"t","o","t","p">>, <<"h","o","t","p">>}
            \/ uri_call.parts.secret \in {None, <<>>})
              => uri_call.result = Rejected /\ uri_call.coordinator_result = Rejected
        /\ (/\ uri_call.parts.scheme = <<"o","t","p","a","u","t","h">>
            /\ uri_call.parts.type \in {<<"t","o","t","p">>, <<"h","o","t","p">>}
            /\ uri_call.parts.secret \notin {None, <<>>}
            /\ uri_call.parts.period = None \/ IsIntegerText(uri_call.parts.period)
            /\ uri_call.parts.digits = None \/ IsIntegerText(uri_call.parts.digits))
              => /\ uri_call.result.tag = "ok"
                 /\ uri_call.result.secret = uri_call.parts.secret
                 /\ uri_call.result.type = uri_call.parts.type
                 /\ uri_call.coordinator_result.tag = "ok"
                 /\ uri_call.coordinator_result.secret = uri_call.parts.secret

\* the parser has rejected an otpauth URI of type hotp whose secret is empty
C16_Witness ==
    /\ uri_call.called
    /\ uri_call.parts.scheme = <<"o","t","p","a","u","t","h">>
    /\ uri_call.parts.type = <<"h","o","t","p">>
    /\ uri_call.parts.secret = <<>>
    /\ uri_call.parts.period = <<"6","0">>
    /\ uri_call.result = Rejected

ExampleUri == <<"o","t","p","a","u","t","h",":","/","/","t","o","t","p","/","E","x","a","m","p","l","e",":","a","l","i","c","e","?","s","e","c","r","e","t","=","J","B","S","W","Y","3","D","P","E","H","P","K","3","P","X","P","&","i","s","s","u","e","r","=","E","x","a","m","p","l","e","&","p","e","r","i","o","d","=","3","0","&","d","i","g","i","t","s","=","6">>

\* the example of the specification parses to its fields
ExampleParsed ==
    (uri_call.called /\ uri_call.uri = ExampleUri) =>
        /\ uri_call.result.tag = "ok"
        /\ uri_call.result.type = <<"t","o","t","p">>
        /\ uri_call.result.issuer = <<"E","x","a","m","p","l","e">>
        /\ uri_call.result.account = <<"a","l","i","c","e">>
        /\ uri_call.result.period = 30
        /\ uri_call.result.digits = 6
        /\ uri_call.result.algorithm = <<"S","H","A","1">>

\* C17: for an accepted URI, a period, digits or algorithm parameter that is absent
\* or has an empty value parses to 30, 6, SHA1, and one with a value parses to
\* that value; the example URI parses to totp, Example, alice, 30, 6, SHA1
C17_DefaultsOrValues ==
    /\ (uri_call.called /\ uri_call.result.tag = "ok") =>
          /\ uri_call.result.period = IF uri_call.parts.period \in {None, <<>>} THEN 30
                                      ELSE DecVal(uri_call.parts.period, Len(uri_call.parts.period))
          /\ uri_call.result.digits = IF uri_call.parts.digits \in {None, <<>>} THEN 6
                                      ELSE DecVal(uri_call.parts.digits, Len(uri_call.parts.digits))
          /\ uri_call.result.algorithm = IF uri_call.parts.algorithm \in {None, <<>>} THEN <<"S","H","A","1">>
                                         ELSE uri_call.parts.algorithm
    /\ ExampleParsed

\* the example URI has been parsed and accepted
C17_Witness == uri_call.called /\ uri_call.uri = ExampleUri /\ uri_call.result.tag = "ok"

\* C17 as stated: only an absent parameter parses to the default, and every
\* parameter the query has parses to its given value
C17_PresentGivesValue ==
    /\ (uri_call.called /\ uri_call.result.tag = "ok") =>
          /\ IF uri_call.parts.period = None THEN uri_call.result.period = 30
             ELSE /\ IsIntegerText(uri_call.parts.period)
                  /\ uri_call.result.period = DecVal(uri_call.parts.period, Len(uri_call.parts.period))
          /\ IF uri_call.parts.digits = None THEN uri_call.result.digits = 6
             ELSE /\ IsIntegerText(uri_call.parts.digits)
                  /\ uri_call.result.digits = DecVal(uri_call.parts.digits, Len(uri_call.parts.digits))
          /\ uri_call.result.algorithm = IF uri_call.parts.algorithm = None THEN <<"S","H","A","1">>
                                         ELSE uri_call.parts.algorithm
    /\ ExampleParsed

\* the part of a label before its first colon and the part after it
LabelIssuer(label) == SubSeq(label, 1, str_find(label, ":", 1) - 1)

LabelAccount(label) == SubSeq(label, str_find(label, ":", 1) + 1, Len(label))

\* the issuer and account the label alone gives
FromLabel(result, label) ==
    IF str_find(label, ":", 1) > 0
    THEN result.issuer = LabelIssuer(label) /\ result.account = LabelAccount(label)
    ELSE result.issuer = None /\ result.account = label

\* C18: for an accepted URI, an issuer parameter with a value is the parsed
\* issuer whatever prefix the label has; when the query has no issuer, or an
\* empty one, a label "X:Y" gives issuer X and account Y, and a label without a
\* colon gives no issuer and the whole label as the account
C18_IssuerQueryWins ==
    (uri_call.called /\ uri_call.result.tag = "ok") =>
        IF uri_call.parts.issuer \notin {None, <<>>}
        THEN /\ uri_call.result.issuer = uri_call.parts.issuer
             /\ str_find(uri_call.parts.label, ":", 1) = 0 => uri_call.result.account = uri_call.parts.label
        ELSE FromLabel(uri_call.result, uri_call.parts.label)

\* an accepted URI whose label has another issuer than its issuer parameter
C18_Witness ==
    /\ uri_call.called
    /\ uri_call.result.tag = "ok"
    /\ uri_call.parts.label = <<"A","c","m","e",":","a",":","b">>
    /\ uri_call.parts.issuer = <<"E","x","a","m","p","l","e">>
    /\ uri_call.result.issuer = <<"E","x","a","m","p","l","e">>

\* C18 as stated: whenever the query has an issuer parameter, its value is the parsed issuer
C18_AnyIssuerParameterWins ==
    (uri_call.called /\ uri_call.result.tag = "ok") =>
        IF uri_call.parts.issuer # None
        THEN /\ uri_call.result.issuer = uri_call.parts.issuer
             /\ str_find(uri_call.parts.label, ":", 1) = 0 => uri_call.result.account = uri_call.parts.label
        ELSE FromLabel(uri_call.result, uri_call.parts.label)

\* C5: a per-entry extraction problem never aborts the pass: the loop visits every
\* entry, and every entry that carries a secret no earlier entry carries is imported
C5_NoEntryAbortsPass ==
    import_pc = "done" =>
        /\ import_state.raised = ""
        /\ import_state.visited = Len(kp_entries)
        /\ \A i \in FirstCarrierIdx(Extracted) : kp_entries[i].uuid \in DOMAIN import_state.otp_secrets

\* ------------------------------------------------------------------------
\* Properties of the sensor platform
\* ------------------------------------------------------------------------
\* computing the code of the record fails: pyotp raises on its secret, period or digits
CodeFails(otp_data, t) == totp_now(otp_data.secret, otp_data.digits, otp_data.period, t).raised # ""

DigestOf(algorithm) ==
    CASE str_upper(algorithm) = <<"S","H","A","2","5","6">> -> "sha256"
      [] str_upper(algorithm) = <<"S","H","A","5","1","2">> -> "sha512"
      [] OTHER                           -> "sha1"

\* the time-based code of a record at time t: its secret and floor(t / period)
\* under its own algorithm, cut to its digit count
StandardCode(otp_data, t) ==
    LET str_code == totp_code_str(hmac_truncated(otp_data.secret, t \div otp_data.period,
                                                 DigestOf(otp_data.algorithm)), otp_data.digits)
    IN  SubSeq(str_code, Len(str_code) - otp_data.digits + 1, Len(str_code))

C19_TimeRemaining ==
    (/\ last_write.written
     /\ last_write.attributes_raised = ""
     /\ "period" \in DOMAIN last_write.attributes
     /\ last_write.attributes["period"] >= 1) =>
        /\ "time_remaining" \in DOMAIN last_write.attributes
        /\ last_write.attributes["time_remaining"] =
               last_write.attributes["period"] - (last_write.at % last_write.attributes["period"])
        /\ last_write.attributes["time_remaining"] \in 1..last_write.attributes["period"]

\* a state written for a record with period 30 at a time t with t mod 30 = 5: 25 seconds remain
C19_Witness ==
    /\ last_write.written
    /\ last_write.attributes_raised = ""
    /\ "period" \in DOMAIN last_write.attributes
    /\ last_write.attributes["period"] = 30
    /\ last_write.at % 30 = 5
    /\ last_write.attributes["time_remaining"] = 25

C7_TempCopiesGone ==
    /\ tmp_files = {}
    /\ last_call.called => (last_call.tmp_left = {} /\ ~last_call.cleanup_raised)

\* C8: when a call of validate_input that passed its file-existence checks ends,
\* the original database file and the original key file no longer exist
C8_OriginalsGone ==
    (last_call.called /\ last_call.checks_passed) => (~last_call.db_left /\ ~last_call.kf_left)

\* the error code the wizards are to show for each cause
ExpectedCode(cause) ==
    CASE cause = "database_missing" -> "database_not_found"
      [] cause = "keyfile_missing"  -> "keyfile_not_found"
      [] cause = "bad_credentials"  -> "invalid_auth"
      [] cause = "not_a_database"   -> "cannot_connect"
      [] cause = "no_otp_data"      -> "no_otp_entries"
      [] cause = "none"             -> ""
      [] OTHER                      -> "unknown"

\* C22: in a setup flow an entry is created only when the report is confirmed,
\* with the data the flow holds; the flow shows the report only after a user step
\* whose validate_input succeeded with at least one record, and holds exactly the
\* records of that import; a user step that ends with an error code creates
\* nothing and leaves the flow on the user form
C22_CreatedOnConfirmOnly ==
    [][/\ Len(config_entries') # Len(config_entries) =>
            \E f \in DOMAIN flows :
                /\ flows[f].step = "import_report"
                /\ ~flows[f].reconfigure
                /\ flows'[f].step = "none"
                /\ flows[f].pending_data.otp_secrets # EmptyDict
                /\ config_entries' = Append(config_entries,
                                            [data |-> flows[f].pending_data, state |-> "not_loaded",
                                             platform |-> NotForwarded])
       /\ \A f \in DOMAIN flows :
             (flows[f].step = "user" /\ flows'[f].step = "import_report") =>
                 /\ files["database.kdbx"].kind = "kdbx"
                 /\ import_pass(files["database.kdbx"].entries).otp_secrets # EmptyDict
                 /\ flows'[f].pending_data.otp_secrets =
                        import_pass(files["database.kdbx"].entries).otp_secrets
                 /\ config_entries' = config_entries
       /\ (last_call'.called /\ last_call'.kind = "user" /\ last_call'.error # "") =>
             /\ config_entries' = config_entries
             /\ flows' = flows
      ]_vars

\* the report of a setup flow has been confirmed and the entry with the record of the import exists
C22_Witness ==
    /\ last_call.called
    /\ last_call.kind = "import_report"
    /\ last_call.entries_changed
    /\ Len(config_entries) = 1
    /\ DOMAIN config_entries[1].data.otp_secrets = {"u1"}
    /\ flows[last_call.flow].step = "none"

\* C23: a reconfigure step that ends with an error code leaves the config
\* entries, the data of the entry included, and the registry as they were; the
\* entry changes only in a step whose validate_input returned
C23_FailureChangesNothing ==
    [][(last_call'.called /\ last_call'.kind = "reconfigure") =>
           /\ last_call'.error # "" => (config_entries' = config_entries /\ hass_data' = hass_data)
           /\ config_entries' # config_entries =>
                 /\ files["database.kdbx"].kind = "kdbx"
                 /\ import_pass(files["database.kdbx"].entries).otp_secrets # EmptyDict
      ]_vars

\* the entries that were set up and not since successfully unloaded: the host
\* keeps them as loaded, or as failed_unload when their unload returned false
SetUpEntries == {e \in 1..Len(config_entries) : config_entries[e].state \in {"loaded", "failed_unload"}}

\* C24: the keys of hass.data[DOMAIN] are the ids of the entries that were set up
\* and not since successfully unloaded
C24_RegistryKeys == DOMAIN hass_data = SetUpEntries

\* of two entries the first was set up and its unload failed, the second is not
\* set up: the registry holds the first only
C24_Witness ==
    /\ Len(config_entries) = 2
    /\ config_entries[1].state = "failed_unload"
    /\ config_entries[2].state = "not_loaded"
    /\ DOMAIN hass_data = {1}

\* C21: however the steps of several setup flows interleave, no two config
\* entries have the same person_entity_id
C21_OneEntryPerPerson ==
    \A a, b \in 1..Len(config_entries) :
        a # b => config_entries[a].data.person_entity_id # config_entries[b].data.person_entity_id

\* C20: every blocking filesystem or decryption operation of a call of
\* validate_input goes through async_add_executor_job; none runs on the event loop
C20_AllOffloaded == last_call.called => last_call.event_loop = {}

\* C9: a wizard step whose import fails shows the error code of the cause under
\* "base", stays on its form and leaves the config entries unchanged (a step
\* whose import succeeded and whose reload raised is no failure of the input)
C9_NamedErrorCodes ==
    (last_call.called /\ last_call.cause \notin {"no_person", "configured", "reload_error"}) =>
        /\ last_call.error = ExpectedCode(last_call.cause)
        /\ last_call.cause # "none" =>
              /\ last_call.error_key = "base"
              /\ ~last_call.entries_changed
              /\ flows[last_call.flow].step = last_call.kind

\* a reconfigure step has just failed on a wrong password, with an entry in place
C9_Witness ==
    /\ last_call.called
    /\ last_call.kind = "reconfigure"
    /\ last_call.cause = "bad_credentials"
    /\ last_call.error = "invalid_auth"
    /\ config_entries # <<>>

\* C13: a reconfigure step that succeeds leaves the entry with exactly the records
\* of the import of the database just uploaded, keeps its person_entity_id,
\* person_name and person_id, and changes no other entry
C13_FullReplace ==
    [][\A f \in FlowIds :
          (flows[f].step = "reconfigure" /\ flows'[f].step = "import_report") =>
              /\ files["database.kdbx"].kind = "kdbx"
              /\ Len(config_entries') = Len(config_entries)
              /\ \A e \in 1..Len(config_entries) :
                    IF e = flows[f].entry_id
                    THEN /\ config_entries'[e].data.otp_secrets =
                               import_pass(files["database.kdbx"].entries).otp_secrets
                         /\ config_entries'[e].data.person_entity_id = config_entries[e].data.person_entity_id
                         /\ config_entries'[e].data.person_name = config_entries[e].data.person_name
                         /\ config_entries'[e].data.person_id = config_entries[e].data.person_id
                    ELSE config_entries'[e] = config_entries[e]]_vars

\* a reconfigure step has just succeeded and replaced the record of GitHub ("u1")
\* by the record of Mail ("u12")
C13_Witness ==
    /\ last_call.called
    /\ last_call.kind = "reconfigure"
    /\ last_call.cause = "none"
    /\ last_call.records_dropped = {"u1"}
    /\ flows[last_call.flow].step = "import_report"
    /\ DOMAIN config_entries[flows[last_call.flow].entry_id].data.otp_secrets = {"u12"}

IdSecretPairs(records) == {<<u, records[u].secret>> : u \in DOMAIN records}

\* C3: the ids and secrets the sensor platform of a loaded entry works from are
\* the ids and secrets of the records stored in the entry
C3_RoundTrip ==
    \A e \in 1..Len(config_entries) :
        config_entries[e].state = "loaded" =>
            IdSecretPairs(config_entries[e].platform.data) = IdSecretPairs(config_entries[e].data.otp_secrets)

\* C14: the sensor platform of a loaded entry has one sensor per record stored in
\* the entry and none besides, and each sensor works from the issuer, account and
\* period of its record
C14_OneSensorPerRecord ==
    \A e \in 1..Len(config_entries) :
        config_entries[e].state = "loaded" =>
            /\ DOMAIN config_entries[e].platform.data = DOMAIN config_entries[e].data.otp_secrets
            /\ \A u \in DOMAIN config_entries[e].data.otp_secrets :
                  /\ config_entries[e].platform.data[u].issuer = config_entries[e].data.otp_secrets[u].issuer
                  /\ config_entries[e].platform.data[u].account = config_entries[e].data.otp_secrets[u].account
                  /\ config_entries[e].platform.data[u].period = config_entries[e].data.otp_secrets[u].period

\* the keys of a config entry's data: person identifiers, the two file names, the records
EntryDataKeys ==
    {"person_entity_id", "person_name", "person_id", "database_file", "keyfile_file", "otp_secrets"}

\* C4: a config entry holds only the person identifiers, the two file names and
\* the records, and the component set up from it requires no other key of it
C4_NoCredentialsKept ==
    \A e \in 1..Len(config_entries) :
        /\ DOMAIN config_entries[e].data = EntryDataKeys
        /\ config_entries[e].platform.required \subseteq DOMAIN config_entries[e].data

====
